---- MODULE Spec2Model ----
(***************************************************************************)
(* A model of loafer (src/loafer.go): the workspace token list, the five   *)
(* handler maps, the OAuth2 install handler and the two signed request     *)
(* dispatchers (interactions, commands).                                   *)
(*                                                                         *)
(* Strings of the program are TLA+ strings; a byte string that is joined   *)
(* or hashed (timestamp, raw body, signature) is a sequence of symbols.    *)
(* A pointer is a sequence of length 0 (nil) or 1 (the value pointed to).  *)
(***************************************************************************)
EXTENDS Integers, Sequences, FiniteSets, TLC

VARIABLES
    Tokens,             \* a.opts.Tokens: sequence of SlackAuthToken
    distCB,             \* a.distCB: the post-install callback, or NoCB
    cmds,               \* a.cmds
    shortcutListeners,  \* a.shortcutListeners
    actionListeners,    \* a.actionListeners
    submitListeners,    \* a.submitListeners
    closeListeners,     \* a.closeListeners
    made,               \* the names of the handler maps that are not nil
    call,               \* the API call or HTTP request being served, with its input
    res,                \* what the core wrote to the call's http.ResponseWriter
    invoked,            \* the handler invocations of the call, with their SlackContext
    cbCalls,            \* the invocations of a.distCB by the call
    panicked,           \* the call ended in a Go runtime panic
    Prefix,             \* a.opts.Prefix
    server,             \* a.server: nil or the http.Server
    run,                \* the goroutines of ServeApp and of its callback
    procs               \* the goroutines of concurrent calls on the served app

vars == <<Tokens, distCB, cmds, shortcutListeners, actionListeners,
          submitListeners, closeListeners, made, call, res, invoked,
          cbCalls, panicked, Prefix, server, run, procs>>

registries == <<cmds, shortcutListeners, actionListeners, submitListeners,
                closeListeners, made>>

outputs == <<res, invoked, cbCalls, panicked>>

serving == <<Prefix, server, run, procs>>

----------------------------------------------------------------------------
(* Bounds of the model and the small sets the inputs are drawn from.       *)

\* the longest token list the model grows
MaxTokens == 2
\* the most entries the five handler maps hold together
MaxRegs == 2
\* the longest timestamp and raw body, in symbols, tried on checkSlackSecret alone
MaxStr == 1

Workspaces == {"T1", "T2"}
TokenValues == {"tokA", "tokB"}
Keys == {"k1", "k2"}
Handlers == {"h1", "h2"}

----------------------------------------------------------------------------
(* net/http status codes used by the program.                              *)

StatusOK == 200
StatusBadRequest == 400
StatusUnauthorized == 401
StatusInternalServerError == 500

----------------------------------------------------------------------------
(* Types.                                                                  *)

SlackAuthToken == [Workspace : Workspaces, Token : TokenValues]

Nil == <<>>

NoCB == "nil"
\* an application callback is known to the core only by what it returns
Callbacks == {"cbSuppress", "cbKeepPage"}

NoCall == [op |-> "none"]

EmptyMap == [k \in {} |-> "h1"]

MapNames == {"cmds", "shortcutListeners", "actionListeners",
             "submitListeners", "closeListeners"}

RECURSIVE SeqsUpTo(_, _)
SeqsUpTo(S, n) ==
    IF n = 0 THEN {<<>>}
    ELSE LET shorter == SeqsUpTo(S, n - 1)
         IN shorter \cup {Append(s, x) : s \in {t \in shorter : Len(t) = n - 1}, x \in S}

\* the token lists an application hands to InitializeSlackApp
InitTokenLists ==
    { <<>>,
      <<[Workspace |-> "T1", Token |-> "tokA"]>>,
      <<[Workspace |-> "T1", Token |-> "tokA"], [Workspace |-> "T2", Token |-> "tokB"]>> }

----------------------------------------------------------------------------
(* Response: one WriteHeader and one Write on the response writer.         *)

Response(w, code, message, headers) ==
    Append(w, [code |-> code, message |-> message, headers |-> headers])

----------------------------------------------------------------------------
(* The token list.                                                         *)

appendToken(tokens, token) == Append(tokens, token)

RECURSIVE scanTokens(_, _, _)
scanTokens(tokens, workspace, i) ==
    IF i > Len(tokens) THEN Nil
    ELSE IF tokens[i].Workspace = workspace THEN <<tokens[i]>>
    ELSE scanTokens(tokens, workspace, i + 1)

\* faulty variant: the loop without its break keeps the last match
RECURSIVE scanTokensNoBreak(_, _, _, _)
scanTokensNoBreak(tokens, workspace, i, token) ==
    IF i > Len(tokens) THEN token
    ELSE scanTokensNoBreak(tokens, workspace, i + 1,
                           IF tokens[i].Workspace = workspace THEN <<tokens[i]>> ELSE token)

findTokenLastMatch(tokens, workspace) == scanTokensNoBreak(tokens, workspace, 1, Nil)

\* faulty variant: an unknown workspace falls back to the first token of the list
findTokenOrDefault(tokens, workspace) ==
    IF scanTokens(tokens, workspace, 1) = Nil /\ Len(tokens) > 0
    THEN <<tokens[1]>>
    ELSE scanTokens(tokens, workspace, 1)

findTokenForWorkspace(tokens, workspace) == scanTokens(tokens, workspace, 1)

\* the goroutines that call into the app while it serves
Goroutines == {"AddToken1", "AddToken2", "commands", "OnCommand"}

\* no such goroutine has been started
NoProcs == [g \in Goroutines |-> [pc |-> "none", seen |-> <<>>]]

\* ServeApp has not been called: no goroutine of it exists
NotServing ==
    [main |-> "idle", cb |-> "none", callback |-> "nil", portFree |-> TRUE,
     reached |-> "idle"]

----------------------------------------------------------------------------
(* InitializeSlackApp: four of the five maps are made, shortcutListeners   *)
(* is left nil, distCB is nil.                                             *)

Init ==
    /\ Tokens \in InitTokenLists
    /\ distCB = NoCB
    /\ cmds = EmptyMap
    /\ shortcutListeners = EmptyMap
    /\ actionListeners = EmptyMap
    /\ submitListeners = EmptyMap
    /\ closeListeners = EmptyMap
    /\ made = MapNames \ {"shortcutListeners"}
    /\ call = NoCall
    /\ res = <<>>
    /\ invoked = <<>>
    /\ cbCalls = <<>>
    /\ panicked = FALSE
    /\ Prefix = "dev"
    /\ server = Nil
    /\ run = NotServing
    /\ procs = NoProcs

\* the call returns to its caller; the next call starts with a fresh response writer
Return ==
    /\ call # NoCall
    /\ UNCHANGED serving
    /\ call' = NoCall
    /\ res' = <<>>
    /\ invoked' = <<>>
    /\ cbCalls' = <<>>
    /\ panicked' = FALSE
    /\ UNCHANGED <<Tokens, distCB, registries>>

\* faulty variant: the new list is appended to the old one
setTokensAppend(old, tokens) == old \o tokens

\* a.opts.Tokens = tokens
setTokens(old, tokens) == tokens

SetTokens ==
    \E tokens \in SeqsUpTo(SlackAuthToken, MaxTokens) :
        /\ call = NoCall
        /\ Tokens' = setTokens(Tokens, tokens)
        /\ UNCHANGED serving
        /\ call' = [op |-> "SetTokens", tokens |-> tokens, before |-> Tokens]
        /\ UNCHANGED <<distCB, registries, outputs>>

AddToken ==
    \E token \in SlackAuthToken :
        /\ call = NoCall
        /\ Len(Tokens) < MaxTokens
        /\ Tokens' = appendToken(Tokens, token)
        /\ UNCHANGED serving
        /\ call' = [op |-> "AddToken", token |-> token, before |-> Tokens]
        /\ UNCHANGED <<distCB, registries, outputs>>

OnAppInstall ==
    \E cb \in Callbacks \cup {NoCB} :
        /\ call = NoCall
        /\ distCB' = cb
        /\ UNCHANGED serving
        /\ call' = [op |-> "OnAppInstall", cb |-> cb]
        /\ UNCHANGED <<Tokens, registries, outputs>>

----------------------------------------------------------------------------
(* appInstall.  The input is what the POST to oauth.v2.access produced.    *)

SlackOauth2Response ==
    [postErr : {FALSE}, decodeErr : {FALSE}, Ok : BOOLEAN,
     TeamID : Workspaces, AccessToken : TokenValues]

OauthOutcomes ==
    SlackOauth2Response
    \cup {[postErr |-> TRUE, decodeErr |-> FALSE, Ok |-> FALSE,
           TeamID |-> "T1", AccessToken |-> "tokA"],
          [postErr |-> FALSE, decodeErr |-> TRUE, Ok |-> FALSE,
           TeamID |-> "T1", AccessToken |-> "tokA"]}

InstallSuccessPage == "INSTALLSUCCESSPAGE"

callbackReturns(cb) == cb = "cbSuppress"

\* faulty variant: the ok flag of the decoded response is not looked at
responseOkUnchecked(installResponse) == TRUE

\* if installResponse.Ok
responseOk(installResponse) == installResponse.Ok

\* faulty variant: the success page is written whatever the callback returned
defaultPageAlways(avoidDefaultPage) ==
    Response(<<>>, StatusOK, InstallSuccessPage,
             {<<"Content-Type", "text/html; charset=utf-8">>})

\* if !avoidDefaultPage { Response(200, INSTALLSUCCESSPAGE) }
defaultPage(avoidDefaultPage) ==
    IF ~avoidDefaultPage
    THEN Response(<<>>, StatusOK, InstallSuccessPage,
                  {<<"Content-Type", "text/html; charset=utf-8">>})
    ELSE <<>>

\* the body of appInstall: the token list, the response and the callback
\* invocations it leaves; a callback invocation records the token list it finds
appInstallRun(installResponse) ==
    IF installResponse.postErr
    THEN [Tokens |-> Tokens, cbCalls |-> <<>>,
          res |-> Response(<<>>, StatusInternalServerError,
                           "Unable to authorize Slack App for workspace", {})]
    ELSE IF installResponse.decodeErr
    THEN [Tokens |-> Tokens, cbCalls |-> <<>>,
          res |-> Response(<<>>, StatusInternalServerError,
                           "Unable to get Slack OAuth2 Access Response for workspace", {})]
    ELSE IF responseOk(installResponse)
    THEN LET added == IF distCB # NoCB
                      THEN appendToken(Tokens,
                                       [Workspace |-> installResponse.TeamID,
                                        Token |-> installResponse.AccessToken])
                      ELSE Tokens
             avoidDefaultPage == IF distCB # NoCB THEN callbackReturns(distCB) ELSE FALSE
             called == IF distCB # NoCB
                       THEN <<[cb |-> distCB, installRes |-> installResponse,
                               Tokens |-> added]>>
                       ELSE <<>>
         IN [Tokens |-> added, cbCalls |-> called, res |-> defaultPage(avoidDefaultPage)]
    ELSE [Tokens |-> Tokens, cbCalls |-> <<>>,
          res |-> Response(<<>>, StatusInternalServerError,
                           "Slack App Access Request is not Ok", {})]

appInstall ==
    \E installResponse \in OauthOutcomes :
        /\ call = NoCall
        /\ Len(Tokens) < MaxTokens
        /\ LET out == appInstallRun(installResponse)
           IN /\ Tokens' = out.Tokens
              /\ res' = out.res
              /\ cbCalls' = out.cbCalls
        /\ UNCHANGED serving
        /\ call' = [op |-> "appInstall", installResponse |-> installResponse,
                    before |-> Tokens, distCB |-> distCB]
        /\ UNCHANGED <<distCB, registries, invoked, panicked>>

----------------------------------------------------------------------------
(* The handler maps.  Writing to a nil map panics in Go, so every On*      *)
(* makes the map first when it is nil; reading a nil map finds nothing.    *)

totalEntries ==
    Cardinality(DOMAIN cmds) + Cardinality(DOMAIN shortcutListeners)
    + Cardinality(DOMAIN actionListeners) + Cardinality(DOMAIN submitListeners)
    + Cardinality(DOMAIN closeListeners)

\* the model's cap on the maps: a new key needs room, a known key is rewritten
hasRoom(m, key) == key \in DOMAIN m \/ totalEntries < MaxRegs

\* faulty variant: a key that is already registered keeps its first handler
setHandlerKeepFirst(m, key, handler) ==
    [k \in DOMAIN m \cup {key} |-> IF k \in DOMAIN m THEN m[k] ELSE handler]

setHandler(m, key, handler) ==
    [k \in DOMAIN m \cup {key} |-> IF k = key THEN handler ELSE m[k]]

\* faulty variant: the whole map is emptied
deleteKeyAll(m, key) == [k \in {} |-> m[k]]

deleteKey(m, key) == [k \in DOMAIN m \ {key} |-> m[k]]

mapOrMake(name, m) == IF name \in made THEN m ELSE EmptyMap

OnCommand ==
    \E cmd \in Keys, handler \in Handlers :
        /\ call = NoCall
        /\ hasRoom(cmds, cmd)
        /\ cmds' = setHandler(mapOrMake("cmds", cmds), cmd, handler)
        /\ made' = made \cup {"cmds"}
        /\ UNCHANGED serving
        /\ call' = [op |-> "OnCommand", key |-> cmd, handler |-> handler,
                    before |-> cmds]
        /\ UNCHANGED <<Tokens, distCB, shortcutListeners, actionListeners,
                       submitListeners, closeListeners, outputs>>

RemoveCommand ==
    \E cmd \in Keys :
        /\ call = NoCall
        /\ cmds' = IF "cmds" \in made THEN deleteKey(cmds, cmd) ELSE cmds
        /\ UNCHANGED serving
        /\ call' = [op |-> "RemoveCommand", key |-> cmd, before |-> cmds]
        /\ UNCHANGED <<Tokens, distCB, shortcutListeners, actionListeners,
                       submitListeners, closeListeners, made, outputs>>

OnAction ==
    \E actionID \in Keys, handler \in Handlers :
        /\ call = NoCall
        /\ hasRoom(actionListeners, actionID)
        /\ actionListeners' =
               setHandler(mapOrMake("actionListeners", actionListeners), actionID, handler)
        /\ made' = made \cup {"actionListeners"}
        /\ UNCHANGED serving
        /\ call' = [op |-> "OnAction", key |-> actionID, handler |-> handler,
                    before |-> actionListeners]
        /\ UNCHANGED <<Tokens, distCB, cmds, shortcutListeners, submitListeners,
                       closeListeners, outputs>>

OnShortcut ==
    \E callbackID \in Keys, handler \in Handlers :
        /\ call = NoCall
        /\ hasRoom(shortcutListeners, callbackID)
        /\ shortcutListeners' =
               setHandler(mapOrMake("shortcutListeners", shortcutListeners),
                          callbackID, handler)
        /\ made' = made \cup {"shortcutListeners"}
        /\ UNCHANGED serving
        /\ call' = [op |-> "OnShortcut", key |-> callbackID, handler |-> handler,
                    before |-> shortcutListeners]
        /\ UNCHANGED <<Tokens, distCB, cmds, actionListeners, submitListeners,
                       closeListeners, outputs>>

OnViewSubmission ==
    \E callbackID \in Keys, handler \in Handlers :
        /\ call = NoCall
        /\ hasRoom(submitListeners, callbackID)
        /\ submitListeners' =
               setHandler(mapOrMake("submitListeners", submitListeners),
                          callbackID, handler)
        /\ made' = made \cup {"submitListeners"}
        /\ UNCHANGED serving
        /\ call' = [op |-> "OnViewSubmission", key |-> callbackID, handler |-> handler,
                    before |-> submitListeners]
        /\ UNCHANGED <<Tokens, distCB, cmds, shortcutListeners, actionListeners,
                       closeListeners, outputs>>

OnViewClose ==
    \E callbackID \in Keys, handler \in Handlers :
        /\ call = NoCall
        /\ hasRoom(closeListeners, callbackID)
        /\ closeListeners' =
               setHandler(mapOrMake("closeListeners", closeListeners),
                          callbackID, handler)
        /\ made' = made \cup {"closeListeners"}
        /\ UNCHANGED serving
        /\ call' = [op |-> "OnViewClose", key |-> callbackID, handler |-> handler,
                    before |-> closeListeners]
        /\ UNCHANGED <<Tokens, distCB, cmds, shortcutListeners, actionListeners,
                       submitListeners, outputs>>

----------------------------------------------------------------------------
(* checkSlackSecret.  HMAC-SHA256 and the hex encoding are injective       *)
(* abstract functions: a digest is the pair it was computed from, and its  *)
(* hex text is one symbol.                                                 *)

SigningSecret == <<"signing-secret">>
OtherSecret == <<"other-secret">>

V0 == <<"v0">>

RECURSIVE Join(_, _)
Join(elems, sep) ==
    IF Len(elems) = 0 THEN <<>>
    ELSE IF Len(elems) = 1 THEN elems[1]
    ELSE elems[1] \o <<sep>> \o Join(Tail(elems), sep)

HMAC(key, data) == [key |-> key, data |-> data]

EncodeToString(digest) == <<digest>>

\* faulty variant: any signature header is accepted, only its presence is checked
checkSlackSecretPresence(signing, ts, body) == signing # <<>>

\* faulty variant: the timestamp is left out of the signed string
checkSlackSecretNoTimestamp(signing, ts, body) ==
    Join(<<V0, EncodeToString(HMAC(SigningSecret, Join(<<V0, body>>, ":")))>>, "=") = signing

checkSlackSecret(signing, ts, body) ==
    LET data == Join(<<V0, ts, body>>, ":")
        signed == SigningSecret
        tested == HMAC(signed, data)
        own == Join(<<V0, EncodeToString(tested)>>, "=")
    IN own = signing

\* the signature the platform computes for a request, with its own copy of a secret
slackSignature(secret, ts, body) ==
    V0 \o <<"=">> \o EncodeToString(HMAC(secret, V0 \o <<":">> \o ts \o <<":">> \o body))

----------------------------------------------------------------------------
(* Requests.  A raw body is one symbol: what the stream, the form parser   *)
(* and the JSON decoder make of it.  team_id and command are the form      *)
(* fields ("" when absent); payloadErr says the payload field is missing   *)
(* or no SlackInteractionEvent; Type, Team, CallbackID, Actions and View   *)
(* are the fields of the decoded event (Team and View are pointers,        *)
(* Actions is the sequence of the actions' action_id).                     *)

EmptyForm ==
    [readErr |-> FALSE, formErr |-> FALSE, team_id |-> "", command |-> "",
     payloadErr |-> TRUE, Type |-> "", Team |-> Nil, CallbackID |-> "",
     Actions |-> <<>>, View |-> Nil]

UnreadableBody == [EmptyForm EXCEPT !.readErr = TRUE]

BadFormBody == [EmptyForm EXCEPT !.formErr = TRUE]

CommandBodies ==
    {[EmptyForm EXCEPT !.team_id = t, !.command = c] :
        t \in Workspaces \cup {""}, c \in Keys \cup {""}}

Teams == {Nil} \cup {<<t>> : t \in Workspaces}

\* payloads that fail to decode: the missing payload, and JSON of the wrong
\* shape, whose team object may have been decoded before the error
UndecodableBodies == {[EmptyForm EXCEPT !.Team = t] : t \in Teams}

EmptyEvent == [EmptyForm EXCEPT !.payloadErr = FALSE]

Events ==
    {[EmptyEvent EXCEPT !.Type = "shortcut", !.CallbackID = k] : k \in Keys}
    \cup {[EmptyEvent EXCEPT !.Type = "block_actions", !.Actions = a] :
             a \in SeqsUpTo(Keys, 2)}
    \cup {[EmptyEvent EXCEPT !.Type = ty, !.View = v] :
             ty \in {"view_submission", "view_closed"},
             v \in {Nil} \cup {<<k>> : k \in Keys}}
    \cup {[EmptyEvent EXCEPT !.Type = "message_action"]}

EventBodies == {[e EXCEPT !.Team = t] : e \in Events, t \in Teams}

Timestamps == {<<"1000">>}

\* the X-Slack-Signature headers tried for a body: the platform's, one made
\* with another secret, and none
Signatures(ts, body) ==
    {slackSignature(SigningSecret, ts, <<body>>),
     slackSignature(OtherSecret, ts, <<body>>),
     <<>>}

Requests(bodies) ==
    UNION {{[sig |-> sig, ts |-> ts, body |-> body] : sig \in Signatures(ts, body)} :
              ts \in Timestamps, body \in bodies}

InteractionRequests ==
    Requests({UnreadableBody, BadFormBody} \cup UndecodableBodies \cup EventBodies)

CommandRequests == Requests({UnreadableBody, BadFormBody} \cup CommandBodies)

----------------------------------------------------------------------------
(* What a dispatcher does with a request: the responses the core writes    *)
(* through Response, the handlers it invokes with their SlackContext, and  *)
(* whether it panics (a nil pointer or an index out of range).             *)

ReadAll(body) == [err |-> body.readErr, bodyText |-> <<body>>]

ParseQuery(bodyText) ==
    [err |-> bodyText[1].formErr, team_id |-> bodyText[1].team_id,
     command |-> bodyText[1].command, payload |-> bodyText[1]]

\* faulty variant: the error of the decoder is dropped
UnmarshalUnchecked(payload) ==
    [err |-> FALSE, Type |-> payload.Type, Team |-> payload.Team,
     CallbackID |-> payload.CallbackID, Actions |-> payload.Actions,
     View |-> payload.View]

Unmarshal(payload) ==
    [err |-> payload.payloadErr, Type |-> payload.Type, Team |-> payload.Team,
     CallbackID |-> payload.CallbackID, Actions |-> payload.Actions,
     View |-> payload.View]

rejected(code, message) ==
    [res |-> Response(<<>>, code, message, {}), invoked |-> <<>>, panicked |-> FALSE]

panic == [res |-> <<>>, invoked |-> <<>>, panicked |-> TRUE]

invoke(handler, ctx) ==
    [res |-> <<>>, invoked |-> <<[handler |-> handler, ctx |-> ctx]>>, panicked |-> FALSE]

\* faulty variant: the key is not compared, any registered handler is taken
lookupAndInvokeAnyKey(listeners, key, ctx, message) ==
    IF DOMAIN listeners # {}
    THEN invoke(listeners[CHOOSE k \in DOMAIN listeners : k # key \/ DOMAIN listeners = {k}], ctx)
    ELSE rejected(StatusBadRequest, message)

\* faulty variant: the dispatcher answers 200 itself after the handler returned
lookupAndInvokeThenRespond(listeners, key, ctx, message) ==
    IF key \in DOMAIN listeners
    THEN [res |-> Response(<<>>, StatusOK, "", {}),
          invoked |-> <<[handler |-> listeners[key], ctx |-> ctx]>>,
          panicked |-> FALSE]
    ELSE rejected(StatusBadRequest, message)

\* if handler, ok := listeners[key]; ok { handler(ctx) } else { Response(400) }
lookupAndInvoke(listeners, key, ctx, message) ==
    IF key \in DOMAIN listeners
    THEN invoke(listeners[key], ctx)
    ELSE rejected(StatusBadRequest, message)

\* faulty variant: the context carries the first token of the list
SlackContextFirstToken(bodyText, accessToken) ==
    [Body |-> bodyText, Token |-> Tokens[1].Token]

\* ctx := &SlackContext{Body: bodyText, Token: accessToken.Token, Res: res, Req: req}
SlackContext(bodyText, accessToken) ==
    [Body |-> bodyText, Token |-> accessToken[1].Token]

\* faulty variant: the last action of the payload is taken
lastAction(actions) == actions[Len(actions)]

\* action := event.Actions[0]; the model keeps an action's action_id
firstAction(actions) == actions[1]

\* faulty variant: the view_closed case looks the key up among the submit handlers
dispatchEventOneViewRegistry(event, ctx) ==
    CASE event.Type = "shortcut" ->
            lookupAndInvoke(shortcutListeners, event.CallbackID, ctx,
                            "Unrecognized shortcut callback_id")
      [] event.Type = "block_actions" ->
            IF Len(event.Actions) = 0 THEN panic
            ELSE lookupAndInvoke(actionListeners, firstAction(event.Actions), ctx,
                                 "Unrecognized action action_id")
      [] event.Type \in {"view_submission", "view_closed"} ->
            IF event.View = Nil THEN panic
            ELSE lookupAndInvoke(submitListeners, event.View[1], ctx,
                                 "Unrecognized view submission callback_id")
      [] OTHER -> rejected(StatusBadRequest, "Unrecognized interaction type")

\* the switch on event.Type
dispatchEvent(event, ctx) ==
    CASE event.Type = "shortcut" ->
            lookupAndInvoke(shortcutListeners, event.CallbackID, ctx,
                            "Unrecognized shortcut callback_id")
      [] event.Type = "block_actions" ->
            IF Len(event.Actions) = 0 THEN panic
            ELSE lookupAndInvoke(actionListeners, firstAction(event.Actions), ctx,
                                 "Unrecognized action action_id")
      [] event.Type = "view_submission" ->
            IF event.View = Nil THEN panic
            ELSE lookupAndInvoke(submitListeners, event.View[1], ctx,
                                 "Unrecognized view submission callback_id")
      [] event.Type = "view_closed" ->
            IF event.View = Nil THEN panic
            ELSE lookupAndInvoke(closeListeners, event.View[1], ctx,
                                 "Unrecognized view closed callback_id")
      [] OTHER -> rejected(StatusBadRequest, "Unrecognized interaction type")

interactionsRun(req) ==
    LET read == ReadAll(req.body)
        queries == ParseQuery(read.bodyText)
        event == Unmarshal(queries.payload)
    IN  IF read.err THEN rejected(StatusBadRequest, "Invalid Body")
        ELSE IF queries.err THEN rejected(StatusBadRequest, "Invalid Form Body")
        ELSE IF ~checkSlackSecret(req.sig, req.ts, read.bodyText)
        THEN rejected(StatusUnauthorized, "Unauthorized")
        ELSE IF event.err THEN rejected(StatusBadRequest, "Invalid JSON format")
        ELSE IF event.Team = Nil THEN panic
        ELSE LET accessToken == findTokenForWorkspace(Tokens, event.Team[1])
             IN  IF accessToken = Nil
                 THEN rejected(StatusBadRequest, "App not installed for workspace")
                 ELSE dispatchEvent(event, SlackContext(read.bodyText, accessToken))

commandsRun(req) ==
    LET read == ReadAll(req.body)
        queries == ParseQuery(read.bodyText)
    IN  IF read.err THEN rejected(StatusBadRequest, "Invalid Body")
        ELSE IF queries.err THEN rejected(StatusBadRequest, "Invalid Form Body")
        ELSE IF ~checkSlackSecret(req.sig, req.ts, read.bodyText)
        THEN rejected(StatusUnauthorized, "Unauthorized")
        ELSE LET accessToken == findTokenForWorkspace(Tokens, queries.team_id)
             IN  IF accessToken = Nil
                 THEN rejected(StatusBadRequest, "App not installed for workspace")
                 ELSE lookupAndInvoke(cmds, queries.command,
                                      SlackContext(read.bodyText, accessToken),
                                      "Unrecognized command")

\* faulty variant: the lookup empties the list it was given
tokensAfterLookupCleared(tokens) == <<>>

\* findTokenForWorkspace is handed a pointer to the token list and only reads it
tokensAfterLookup(tokens) == tokens

interactions ==
    \E req \in InteractionRequests :
        /\ call = NoCall
        /\ LET out == interactionsRun(req)
           IN /\ res' = out.res
              /\ invoked' = out.invoked
              /\ panicked' = out.panicked
        /\ UNCHANGED serving
        /\ call' = [op |-> "interactions", req |-> req]
        /\ Tokens' = tokensAfterLookup(Tokens)
        /\ UNCHANGED <<distCB, registries, cbCalls>>

commands ==
    \E req \in CommandRequests :
        /\ call = NoCall
        /\ LET out == commandsRun(req)
           IN /\ res' = out.res
              /\ invoked' = out.invoked
              /\ panicked' = out.panicked
        /\ UNCHANGED serving
        /\ call' = [op |-> "commands", req |-> req]
        /\ Tokens' = tokensAfterLookup(Tokens)
        /\ UNCHANGED <<distCB, registries, cbCalls>>

----------------------------------------------------------------------------
(* The dispatchers with the registration calls, over the token lists of    *)
(* InitializeSlackApp.                                                     *)

Next ==
    \/ OnCommand
    \/ RemoveCommand
    \/ OnAction
    \/ OnShortcut
    \/ OnViewSubmission
    \/ OnViewClose
    \/ interactions
    \/ commands
    \/ Return

Spec == Init /\ [][Next]_vars

----------------------------------------------------------------------------
(* The token list and the install exchange on their own.                   *)

NextInstall ==
    \/ AddToken
    \/ SetTokens
    \/ OnAppInstall
    \/ appInstall
    \/ commands
    \/ Return

SpecInstall == Init /\ [][NextInstall]_vars

----------------------------------------------------------------------------
(* checkSlackSecret on its own, over timestamps and raw bodies spelled out *)
(* symbol by symbol (the separator ":" among them).  The signature header  *)
(* is the platform's signature of some secret, timestamp and body, the     *)
(* same without its "v0=" prefix, or absent.                               *)

Symbols == {":", "a"}

Strings == SeqsUpTo(Symbols, MaxStr)

Secrets == {SigningSecret, OtherSecret}

headerOf(form, secret, ts, body) ==
    IF form = "signature" THEN slackSignature(secret, ts, body)
    ELSE IF form = "digest" THEN EncodeToString(HMAC(secret, V0 \o <<":">> \o ts \o <<":">> \o body))
    ELSE <<>>

verify ==
    \E ts \in Strings, body \in Strings, secret \in Secrets,
       signedTs \in Strings, signedBody \in Strings,
       form \in {"signature", "digest", "absent"} :
        /\ call = NoCall
        /\ UNCHANGED serving
        /\ call' = [op |-> "checkSlackSecret", ts |-> ts, body |-> body, form |-> form,
                    signing |-> headerOf(form, secret, signedTs, signedBody),
                    by |-> [secret |-> secret, ts |-> signedTs, body |-> signedBody],
                    result |-> checkSlackSecret(headerOf(form, secret, signedTs, signedBody),
                                                ts, body)]
        /\ UNCHANGED <<Tokens, distCB, registries, outputs>>

NextVerify ==
    \/ verify
    \/ Return

SpecVerify == Init /\ [][NextVerify]_vars

----------------------------------------------------------------------------
(* Vocabulary of the properties.                                           *)

isRequest == call.op \in {"interactions", "commands"}

\* the request carries the signature the platform computes with the app's secret
validlySigned == call.req.sig = slackSignature(SigningSecret, call.req.ts, <<call.req.body>>)

\* the body was read and parsed as a form and, for an event, the payload decoded
wellFormed ==
    /\ ~call.req.body.readErr
    /\ ~call.req.body.formErr
    /\ call.op = "interactions" => ~call.req.body.payloadErr

hasTeam == call.op = "interactions" => call.req.body.Team # Nil

teamOf ==
    IF call.op = "commands" THEN call.req.body.team_id ELSE call.req.body.Team[1]

holdsWorkspace(tokens, w) == \E i \in 1..Len(tokens) : tokens[i].Workspace = w

RecognizedTypes == {"shortcut", "block_actions", "view_submission", "view_closed"}

recognizedCategory ==
    call.op = "commands" \/ call.req.body.Type \in RecognizedTypes

\* the request carries the key of its category
hasKey ==
    \/ call.op = "commands"
    \/ call.req.body.Type = "shortcut"
    \/ call.req.body.Type = "block_actions" /\ Len(call.req.body.Actions) > 0
    \/ call.req.body.Type \in {"view_submission", "view_closed"} /\ call.req.body.View # Nil

keyOf ==
    IF call.op = "commands" THEN call.req.body.command
    ELSE IF call.req.body.Type = "shortcut" THEN call.req.body.CallbackID
    ELSE IF call.req.body.Type = "block_actions" THEN call.req.body.Actions[1]
    ELSE call.req.body.View[1]

registryOf ==
    IF call.op = "commands" THEN cmds
    ELSE IF call.req.body.Type = "shortcut" THEN shortcutListeners
    ELSE IF call.req.body.Type = "block_actions" THEN actionListeners
    ELSE IF call.req.body.Type = "view_submission" THEN submitListeners
    ELSE closeListeners

wroteOnce(code) == Len(res) = 1 /\ res[1].code = code

installDecoded ==
    /\ call.op = "appInstall"
    /\ ~call.installResponse.postErr
    /\ ~call.installResponse.decodeErr

installedEntry ==
    [Workspace |-> call.installResponse.TeamID, Token |-> call.installResponse.AccessToken]

----------------------------------------------------------------------------
(* Properties of the dispatchers (specification Spec).                     *)

\* C1: a request to interactions or commands whose signature does not verify
\* invokes no handler, whatever its body, the handler maps and the token list.
C1_UnsignedInvokesNothing ==
    (isRequest /\ ~validlySigned) => invoked = <<>>

\* a request signed with another secret that would be dispatched if it verified
C1_Witness ==
    /\ call.op = "interactions"
    /\ call.req.sig = slackSignature(OtherSecret, call.req.ts, <<call.req.body>>)
    /\ wellFormed /\ hasTeam
    /\ holdsWorkspace(Tokens, teamOf)
    /\ call.req.body.Type = "shortcut"
    /\ call.req.body.CallbackID \in DOMAIN shortcutListeners
    /\ invoked = <<>>

\* C2: a request whose body was read and whose signature does not verify is
\* answered 401, whether or not the body parses as a form.
C2_UnsignedIs401 ==
    (isRequest /\ ~call.req.body.readErr /\ ~validlySigned)
        => wroteOnce(StatusUnauthorized)

\* C3: a validly signed, well-formed request of an installed workspace that
\* carries the key of a recognized category invokes the handler registered
\* under that key once and no other handler; when the key is not registered
\* it is answered 400 and no handler is invoked.
C3_DispatchByKey ==
    (/\ isRequest /\ validlySigned /\ wellFormed /\ hasTeam
     /\ holdsWorkspace(Tokens, teamOf)
     /\ recognizedCategory /\ hasKey)
        => IF keyOf \in DOMAIN registryOf
           THEN /\ Len(invoked) = 1
                /\ invoked[1].handler = registryOf[keyOf]
           ELSE /\ wroteOnce(StatusBadRequest)
                /\ invoked = <<>>

\* a command registered beside another command with another handler is dispatched
C3_Witness ==
    /\ call.op = "commands" /\ validlySigned /\ wellFormed
    /\ holdsWorkspace(Tokens, teamOf)
    /\ DOMAIN cmds = Keys
    /\ cmds["k1"] # cmds["k2"]
    /\ keyOf = "k2"
    /\ Len(invoked) = 1
    /\ invoked[1].handler = cmds["k2"]

\* C4: a validly signed, well-formed request whose team id has no entry in
\* the token list is answered 400 "App not installed for workspace" and
\* invokes no handler, for every category and key.
C4_NotInstalledFirst ==
    (/\ isRequest /\ validlySigned /\ wellFormed /\ hasTeam
     /\ ~holdsWorkspace(Tokens, teamOf))
        => /\ wroteOnce(StatusBadRequest)
           /\ res[1].message = "App not installed for workspace"
           /\ invoked = <<>>
           /\ ~panicked

\* an event of an unrecognized type from a workspace that is not installed,
\* while another workspace is
C4_Witness ==
    /\ call.op = "interactions" /\ validlySigned /\ wellFormed /\ hasTeam
    /\ Len(Tokens) > 0
    /\ ~holdsWorkspace(Tokens, teamOf)
    /\ call.req.body.Type = "message_action"
    /\ wroteOnce(StatusBadRequest)
    /\ res[1].message = "App not installed for workspace"

----------------------------------------------------------------------------
(* Properties of the token list and the install exchange (specification    *)
(* SpecInstall).                                                           *)

\* C5: after AddToken of an entry (w, t), from any token list, a lookup of w
\* returns t.
C5_AddThenFind ==
    call.op = "AddToken"
        => findTokenForWorkspace(Tokens, call.token.Workspace) = <<call.token>>

\* C6: the lookup returns the first entry, in insertion order, of the
\* workspace, and nil when the list holds none; after an append (AddToken or
\* an install) a workspace that was found before is found with the same token.
C6_FindFirstMatch ==
    /\ \A w \in Workspaces :
          LET at == {i \in 1..Len(Tokens) : Tokens[i].Workspace = w}
          IN  IF at = {}
              THEN findTokenForWorkspace(Tokens, w) = Nil
              ELSE findTokenForWorkspace(Tokens, w)
                       = <<Tokens[CHOOSE i \in at : \A j \in at : i <= j]>>
    /\ call.op \in {"AddToken", "appInstall"}
          => \A w \in Workspaces :
                findTokenForWorkspace(call.before, w) # Nil
                    => findTokenForWorkspace(Tokens, w)
                           = findTokenForWorkspace(call.before, w)

\* a second token was added for a workspace and the lookup keeps the older one
C6_Witness ==
    /\ call.op = "AddToken"
    /\ Len(Tokens) = 2
    /\ Tokens[2] = call.token
    /\ Tokens[1].Workspace = call.token.Workspace
    /\ Tokens[1].Token # call.token.Token
    /\ findTokenForWorkspace(Tokens, call.token.Workspace) = <<Tokens[1]>>

\* C7: after an install whose response has ok = true, team id T and access
\* token tok, with no earlier entry for T, the token list resolves T to tok,
\* whether or not a post-install callback is registered.
C7_InstallRegistersToken ==
    (/\ installDecoded
     /\ call.installResponse.Ok
     /\ ~holdsWorkspace(call.before, call.installResponse.TeamID))
        => findTokenForWorkspace(Tokens, call.installResponse.TeamID)
               = <<installedEntry>>

\* C8: the token list holds at most one token per workspace id.
C8_OneTokenPerWorkspace ==
    \A i, j \in 1..Len(Tokens) :
        Tokens[i].Workspace = Tokens[j].Workspace => i = j

\* C9: an install that fails (the POST fails, the response does not decode,
\* or it decodes with ok = false) answers 500 once, leaves the token list as
\* it was and does not invoke the post-install callback.
C9_FailedInstall ==
    (/\ call.op = "appInstall"
     /\ \/ call.installResponse.postErr
        \/ call.installResponse.decodeErr
        \/ ~call.installResponse.Ok)
        => /\ wroteOnce(StatusInternalServerError)
           /\ Tokens = call.before
           /\ cbCalls = <<>>

\* a decoded response with ok = false while a callback is registered
C9_Witness ==
    /\ installDecoded
    /\ ~call.installResponse.Ok
    /\ call.distCB # NoCB
    /\ wroteOnce(StatusInternalServerError)
    /\ cbCalls = <<>>

\* C10: after an install with ok = true the core writes the 200 success page
\* exactly when no callback is registered or the callback returned false,
\* and nothing when it returned true; the callback is invoked at most once
\* and finds the token already registered.
C10_SuccessPage ==
    (installDecoded /\ call.installResponse.Ok)
        => /\ IF call.distCB = "cbSuppress"
              THEN res = <<>>
              ELSE /\ wroteOnce(StatusOK)
                   /\ res[1].message = InstallSuccessPage
           /\ Len(cbCalls) <= 1
           /\ \A i \in 1..Len(cbCalls) :
                 /\ cbCalls[i].cb = call.distCB
                 /\ cbCalls[i].Tokens = Append(call.before, installedEntry)

\* the callback suppressed the page, after the token was registered
C10_Witness ==
    /\ installDecoded /\ call.installResponse.Ok
    /\ call.distCB = "cbSuppress"
    /\ res = <<>>
    /\ Len(cbCalls) = 1
    /\ Tokens = Append(call.before, installedEntry)

----------------------------------------------------------------------------
(* Properties of checkSlackSecret (specification SpecVerify).              *)

isVerify == call.op = "checkSlackSecret"

\* the signature header is exactly the reference signature of the request
referenceSigned ==
    call.signing = slackSignature(SigningSecret, call.ts, call.body)

\* C11 as stated: checkSlackSecret returns true exactly for the reference
\* signature, and a signature computed with a different timestamp, body or
\* secret is rejected.
C11_AnyDifferenceRejected ==
    isVerify
        => /\ call.result <=> referenceSigned
           /\ (/\ call.form = "signature"
               /\ call.by # [secret |-> SigningSecret, ts |-> call.ts, body |-> call.body])
                  => ~call.result

\* C11 as amended: checkSlackSecret returns true exactly for the reference
\* signature; a signature computed with a different secret, or with a
\* timestamp and body whose string timestamp ":" body differs from the
\* request's (as it does when only one of the two differs), is rejected.
C11_VerifyIffReference ==
    isVerify
        => /\ call.result <=> referenceSigned
           /\ (call.form = "signature" /\ call.result)
                  => /\ call.by.secret = SigningSecret
                     /\ call.by.ts \o <<":">> \o call.by.body
                            = call.ts \o <<":">> \o call.body
                     /\ call.by.ts = call.ts <=> call.by.body = call.body

\* a signature of the right secret and body and another timestamp is rejected
C11_Witness ==
    /\ isVerify
    /\ call.form = "signature"
    /\ call.by.secret = SigningSecret
    /\ call.by.body = call.body
    /\ call.by.ts # call.ts
    /\ ~call.result

----------------------------------------------------------------------------
(* Properties of the registration calls (specification Spec).              *)

Registrations ==
    {"OnCommand", "OnShortcut", "OnAction", "OnViewSubmission", "OnViewClose"}

\* the handler map a registration call writes
registeredIn ==
    IF call.op \in {"OnCommand", "RemoveCommand"} THEN cmds
    ELSE IF call.op = "OnShortcut" THEN shortcutListeners
    ELSE IF call.op = "OnAction" THEN actionListeners
    ELSE IF call.op = "OnViewSubmission" THEN submitListeners
    ELSE closeListeners

\* C12: after a registration call the key is registered once, with the
\* handler of that call, also when the key was registered before with another
\* handler; the other keys of the map keep their handlers; and a dispatch of
\* a registered key invokes the handler the map holds, so the later one.
C12_LastRegistrationWins ==
    /\ call.op \in Registrations
          => /\ DOMAIN registeredIn = DOMAIN call.before \cup {call.key}
             /\ registeredIn[call.key] = call.handler
             /\ \A k \in DOMAIN call.before \ {call.key} :
                   registeredIn[k] = call.before[k]
    /\ (/\ isRequest /\ validlySigned /\ wellFormed /\ hasTeam
        /\ holdsWorkspace(Tokens, teamOf)
        /\ recognizedCategory /\ hasKey
        /\ keyOf \in DOMAIN registryOf)
          => \A i \in 1..Len(invoked) : invoked[i].handler = registryOf[keyOf]

\* OnCommand on a command that was registered with another handler
C12_Witness ==
    /\ call.op = "OnCommand"
    /\ call.key \in DOMAIN call.before
    /\ call.before[call.key] # call.handler
    /\ cmds[call.key] = call.handler
    /\ Cardinality(DOMAIN cmds) = Cardinality(DOMAIN call.before)

\* after RemoveCommand(c): c is not registered, the other commands keep their
\* handlers, and nothing changed when c was not registered
commandRemoved ==
    call.op = "RemoveCommand"
        => /\ call.key \notin DOMAIN cmds
           /\ DOMAIN cmds = DOMAIN call.before \ {call.key}
           /\ \A k \in DOMAIN cmds : cmds[k] = call.before[k]
           /\ call.key \notin DOMAIN call.before => cmds = call.before

\* a signed command request of an installed workspace for a command that is
\* not registered is answered 400 "Unrecognized command" without a handler
unregisteredCommandRejected ==
    (/\ call.op = "commands" /\ validlySigned /\ wellFormed
     /\ holdsWorkspace(Tokens, teamOf)
     /\ keyOf \notin DOMAIN cmds)
        => /\ wroteOnce(StatusBadRequest)
           /\ res[1].message = "Unrecognized command"
           /\ invoked = <<>>

\* C13: RemoveCommand(c) leaves c unregistered, so that a signed command
\* request for c from an installed workspace is answered 400 "Unrecognized
\* command" and invokes no handler; it leaves the other commands and the four
\* other handler maps unchanged and is a no-op when c is not registered.
C13_RemoveCommand ==
    [][/\ commandRemoved'
       /\ unregisteredCommandRejected'
       /\ call'.op = "RemoveCommand"
             => UNCHANGED <<shortcutListeners, actionListeners, submitListeners,
                            closeListeners, Tokens, distCB>>]_vars

\* one of two registered commands was removed and the other is still there
C13_Witness ==
    /\ call.op = "RemoveCommand"
    /\ DOMAIN call.before = Keys
    /\ DOMAIN cmds = Keys \ {call.key}

----------------------------------------------------------------------------
(* More properties of the token list (specification SpecInstall).          *)

\* C14: after SetTokens(ts) the token list is ts: every workspace resolves as
\* it does in ts alone, a workspace that was found before and has no entry in
\* ts is not found, and a signed command request of a workspace without an
\* entry in the list is answered 400 "App not installed for workspace".
C14_SetTokensReplaces ==
    /\ call.op = "SetTokens"
          => /\ Tokens = call.tokens
             /\ \A w \in Workspaces :
                   /\ findTokenForWorkspace(Tokens, w)
                          = findTokenForWorkspace(call.tokens, w)
                   /\ ~holdsWorkspace(call.tokens, w)
                          => findTokenForWorkspace(Tokens, w) = Nil
    /\ (/\ call.op = "commands" /\ validlySigned /\ wellFormed
        /\ ~holdsWorkspace(Tokens, teamOf))
          => /\ wroteOnce(StatusBadRequest)
             /\ res[1].message = "App not installed for workspace"

\* SetTokens dropped a workspace that was installed
C14_Witness ==
    /\ call.op = "SetTokens"
    /\ Len(call.tokens) > 0
    /\ \E w \in Workspaces :
          /\ holdsWorkspace(call.before, w)
          /\ ~holdsWorkspace(call.tokens, w)
          /\ findTokenForWorkspace(Tokens, w) = Nil

----------------------------------------------------------------------------
(* More properties of the dispatchers (specification Spec).                *)

dispatched ==
    /\ isRequest /\ validlySigned /\ wellFormed /\ hasTeam
    /\ holdsWorkspace(Tokens, teamOf)

\* C15: of a block_actions event with a non-empty actions sequence only the
\* first action is dispatched: when its action_id is registered that handler
\* is invoked once and no other, and when it is not the request is answered
\* 400 and nothing is invoked, even if a later action_id is registered.
C15_FirstActionOnly ==
    (/\ dispatched
     /\ call.op = "interactions"
     /\ call.req.body.Type = "block_actions"
     /\ Len(call.req.body.Actions) > 0)
        => IF call.req.body.Actions[1] \in DOMAIN actionListeners
           THEN /\ Len(invoked) = 1
                /\ invoked[1].handler = actionListeners[call.req.body.Actions[1]]
                /\ res = <<>>
           ELSE /\ wroteOnce(StatusBadRequest)
                /\ invoked = <<>>

\* two actions with handlers of their own: only the first one's handler ran
C15_Witness ==
    /\ dispatched
    /\ call.op = "interactions"
    /\ call.req.body.Type = "block_actions"
    /\ Len(call.req.body.Actions) = 2
    /\ DOMAIN actionListeners = Keys
    /\ actionListeners[call.req.body.Actions[1]] # actionListeners[call.req.body.Actions[2]]
    /\ Len(invoked) = 1
    /\ invoked[1].handler = actionListeners[call.req.body.Actions[1]]

\* C16: whenever a dispatcher invokes a handler, the team id of the request
\* has an entry in the token list, the context's token is the token of the
\* first such entry and of no entry of another workspace, and the context's
\* body is the raw body whose signature was verified.
C16_ContextOfTheTenant ==
    (isRequest /\ invoked # <<>>)
        => /\ validlySigned /\ wellFormed /\ hasTeam
           /\ holdsWorkspace(Tokens, teamOf)
           /\ \A i \in 1..Len(invoked) :
                 /\ \E j \in 1..Len(Tokens) :
                       /\ Tokens[j].Workspace = teamOf
                       /\ Tokens[j].Token = invoked[i].ctx.Token
                       /\ \A k \in 1..(j - 1) : Tokens[k].Workspace # teamOf
                 /\ \A j \in 1..Len(Tokens) :
                       Tokens[j].Token = invoked[i].ctx.Token
                           => Tokens[j].Workspace = teamOf
                 /\ invoked[i].ctx.Body = <<call.req.body>>
                 /\ call.req.sig
                        = slackSignature(SigningSecret, call.req.ts, invoked[i].ctx.Body)

\* a handler ran for the second workspace of the list, with that workspace's token
C16_Witness ==
    /\ isRequest /\ Len(invoked) = 1
    /\ Len(Tokens) = 2
    /\ Tokens[1].Workspace # teamOf
    /\ Tokens[2].Workspace = teamOf
    /\ invoked[1].ctx.Token = Tokens[2].Token
    /\ invoked[1].ctx.Token # Tokens[1].Token

----------------------------------------------------------------------------
(* ServeApp and Close.  ServeApp runs on the calling goroutine and starts
   the callback on a goroutine of its own; the callback of the repository's
   run test calls Close.  The http.Server is the record
   [inShutdown, listener, tracked]: ListenAndServe gives up with
   ErrServerClosed when it finds inShutdown set, before listening and again
   when it registers its listener, and its Accept returns once the listener
   is closed; Shutdown sets inShutdown, closes the registered listener and,
   with no connection open, returns nil whatever the state of its context.
   No client connects while the server starts. *)

NewServer == [inShutdown |-> FALSE, listener |-> "none", tracked |-> FALSE]

ServeCallbacks == {"nil", "close"}

Prefixes == {"", "dev"}

InitServe ==
    /\ Tokens \in InitTokenLists
    /\ distCB = NoCB
    /\ cmds = EmptyMap
    /\ shortcutListeners = EmptyMap
    /\ actionListeners = EmptyMap
    /\ submitListeners = EmptyMap
    /\ closeListeners = EmptyMap
    /\ made = MapNames \ {"shortcutListeners"}
    /\ call = NoCall
    /\ res = <<>>
    /\ invoked = <<>>
    /\ cbCalls = <<>>
    /\ panicked = FALSE
    /\ Prefix \in Prefixes
    /\ server = Nil
    /\ run \in [main : {"idle"}, cb : {"none"}, callback : ServeCallbacks,
                portFree : BOOLEAN, reached : {"idle"}]
    /\ procs = NoProcs

app == <<Tokens, distCB, registries, call, outputs, procs>>

mainAt(pc) == run.main = pc

cbAt(pc) == run.cb = pc

goMain(pc) == [run EXCEPT !.main = pc, !.reached = run.main]

\* ServeApp up to the routes: the prefix check, then a.server is set
ServeAppSetup ==
    /\ mainAt("idle")
    /\ IF Len(Prefix) = 0
       THEN /\ run' = goMain("panicked")
            /\ UNCHANGED server
       ELSE /\ server' = <<NewServer>>
            /\ run' = goMain("spawn")
    /\ UNCHANGED <<app, Prefix>>

\* if cb != nil { go cb() }
ServeAppSpawn ==
    /\ mainAt("spawn")
    /\ run' = [goMain("ListenAndServe") EXCEPT
                  !.cb = IF run.callback # "nil" THEN "Close" ELSE "none"]
    /\ UNCHANGED <<app, Prefix, server>>

\* ListenAndServe: a server that is shutting down does not listen
ListenAndServe ==
    /\ mainAt("ListenAndServe")
    /\ run' = goMain(IF server[1].inShutdown THEN "returned" ELSE "Listen")
    /\ UNCHANGED <<app, Prefix, server>>

\* net.Listen: fails when the port is taken
Listen ==
    /\ mainAt("Listen")
    /\ IF run.portFree
       THEN /\ server' = <<[server[1] EXCEPT !.listener = "open"]>>
            /\ run' = goMain("Serve")
       ELSE /\ run' = goMain("returned")
            /\ UNCHANGED server
    /\ UNCHANGED <<app, Prefix>>

\* Serve registers the listener, or closes it when the server is shutting down
Serve ==
    /\ mainAt("Serve")
    /\ IF server[1].inShutdown
       THEN /\ server' = <<[server[1] EXCEPT !.listener = "closed"]>>
            /\ run' = goMain("returned")
       ELSE /\ server' = <<[server[1] EXCEPT !.tracked = TRUE]>>
            /\ run' = goMain("Accept")
    /\ UNCHANGED <<app, Prefix>>

\* Accept blocks until the listener is closed, then Serve returns
Accept ==
    /\ mainAt("Accept")
    /\ server[1].listener = "closed"
    /\ server' = <<[server[1] EXCEPT !.tracked = FALSE]>>
    /\ run' = goMain("returned")
    /\ UNCHANGED <<app, Prefix>>

closeGuardInverted(srv) == srv = Nil

\* if a.server != nil
closeGuard(srv) == srv # Nil

\* Close, on the callback's goroutine: Shutdown on a nil server faults
Close ==
    /\ cbAt("Close")
    /\ run' = [run EXCEPT !.cb = IF ~closeGuard(server) THEN "done"
                                 ELSE IF server = Nil THEN "panicked"
                                 ELSE "Shutdown"]
    /\ UNCHANGED <<app, Prefix, server>>

\* Shutdown marks the server as shutting down
Shutdown ==
    /\ cbAt("Shutdown")
    /\ server' = <<[server[1] EXCEPT !.inShutdown = TRUE]>>
    /\ run' = [run EXCEPT !.cb = "closeListenersLocked"]
    /\ UNCHANGED <<app, Prefix>>

\* Shutdown closes the registered listener and, no connection being open,
\* returns nil; Close panics on an error
closeListenersLocked ==
    /\ cbAt("closeListenersLocked")
    /\ server' = <<[server[1] EXCEPT
                       !.listener = IF server[1].tracked THEN "closed" ELSE @]>>
    /\ LET err == Nil
       IN  run' = [run EXCEPT !.cb = IF err # Nil THEN "panicked" ELSE "done"]
    /\ UNCHANGED <<app, Prefix>>

mainStep ==
    \/ ServeAppSetup
    \/ ServeAppSpawn
    \/ ListenAndServe
    \/ Listen
    \/ Serve
    \/ Accept

cbStep ==
    \/ Close
    \/ Shutdown
    \/ closeListenersLocked

NextServe ==
    \/ mainStep
    \/ cbStep

\* both goroutines are scheduled while they can run
SpecServe ==
    InitServe /\ [][NextServe]_vars /\ WF_vars(mainStep) /\ WF_vars(cbStep)

----------------------------------------------------------------------------
(* C17: ServeApp started with a non-empty prefix and a callback that calls
   Close: Close never panics and ServeApp eventually returns, whatever the
   interleaving of Close's shutdown with the start of the server. *)

closes == Prefix # "" /\ run.callback = "close"

C17_ServeAppReturns ==
    closes => ([](run.cb # "panicked") /\ <>(run.main = "returned"))

\* Close shut the server down while ServeApp was blocked accepting
C17_Witness ==
    /\ closes
    /\ run.main = "returned"
    /\ run.reached = "Accept"
    /\ run.cb = "done"
    /\ server[1].inShutdown

----------------------------------------------------------------------------
(* The block-kit components and their wire form.  A Go value is a record
   tagged with its kind; a struct is the sequence of its fields in the order
   of the declaration, each with its json key and its omitempty option.
   Marshal produces the JSON value as a tree whose objects keep the order of
   their members. *)

MaxBlocks == 2

str(s) == [k |-> "string", s |-> s]

bool(b) == [k |-> "bool", b |-> b]

uint(n) == [k |-> "uint", n |-> n]

\* a pointer or an interface value: p is Nil or holds one value
ptr(p) == [k |-> "ptr", p |-> p]

iface(p) == [k |-> "interface", p |-> p]

slice(items) == [k |-> "slice", items |-> items]

struct(fields) == [k |-> "struct", fields |-> fields]

field(key, omitempty, v) == [key |-> key, omitempty |-> omitempty, v |-> v]

\* encoding/json: what omitempty takes for empty
isEmptyValue(v) ==
    CASE v.k = "string" -> v.s = ""
      [] v.k = "slice" -> Len(v.items) = 0
      [] v.k = "bool" -> ~v.b
      [] v.k = "uint" -> v.n = 0
      [] v.k \in {"ptr", "interface"} -> v.p = Nil
      [] OTHER -> FALSE

RECURSIVE Marshal(_)
Marshal(v) ==
    CASE v.k = "string" -> [j |-> "string", s |-> v.s]
      [] v.k = "bool" -> [j |-> "bool", b |-> v.b]
      [] v.k = "uint" -> [j |-> "number", n |-> v.n]
      [] v.k \in {"ptr", "interface"} ->
            IF v.p = Nil THEN [j |-> "null"] ELSE Marshal(v.p[1])
      [] v.k = "slice" ->
            [j |-> "array",
             items |-> [i \in 1..Len(v.items) |-> Marshal(v.items[i])]]
      [] OTHER ->
            LET kept == SelectSeq(v.fields,
                            LAMBDA f : ~(f.omitempty /\ isEmptyValue(f.v)))
            IN  [j |-> "object",
                 members |-> [i \in 1..Len(kept) |->
                                [key |-> kept[i].key,
                                 value |-> Marshal(kept[i].v)]]]

SlackBlockText(Type, Text, Emoji) ==
    struct(<<field("type", TRUE, str(Type)),
             field("text", TRUE, str(Text)),
             field("emoji", TRUE, bool(Emoji))>>)

\* the fields no constructor argument reaches keep Go's zero values
SlackBlockAccessory(Type, ActionID, InitialTime) ==
    struct(<<field("type", TRUE, str(Type)),
             field("title", TRUE, ptr(Nil)),
             field("alt_text", TRUE, str("")),
             field("multiline", TRUE, bool(FALSE)),
             field("max_length", TRUE, uint(0)),
             field("placeholder", TRUE, ptr(Nil)),
             field("image_url", TRUE, str("")),
             field("action_id", TRUE, str(ActionID)),
             field("options", TRUE, slice(<<>>)),
             field("initial_date", TRUE, str("")),
             field("initial_time", TRUE, str(InitialTime)),
             field("initial_option", TRUE, ptr(Nil)),
             field("initial_options", TRUE, slice(<<>>)),
             field("initial_conversations", TRUE, slice(<<>>))>>)

SlackBlockActions(Type, Elements) ==
    struct(<<field("type", TRUE, str(Type)),
             field("elements", TRUE, Elements)>>)

SlackInputElement(Type, IsDispatchAction, Element, Label) ==
    struct(<<field("type", TRUE, str(Type)),
             field("dispatch_action", TRUE, bool(IsDispatchAction)),
             field("element", TRUE, Element),
             field("label", TRUE, Label)>>)

SlackModal(Type, Title, Submit, Close_, Blocks, CallbackID, NotifyOnClose, PrivateMetadata) ==
    struct(<<field("type", TRUE, str(Type)),
             field("title", TRUE, Title),
             field("submit", TRUE, Submit),
             field("close", TRUE, Close_),
             field("blocks", TRUE, Blocks),
             field("callback_id", TRUE, str(CallbackID)),
             field("notify_on_close", TRUE, bool(NotifyOnClose)),
             field("private_metadata", TRUE, str(PrivateMetadata))>>)

MakeSlackContext(text) ==
    SlackBlockActions("context",
        iface(<<slice(<<iface(<<SlackBlockText("plain_text", text, FALSE)>>)>>)>>))

MakeSlackModalTimePickerInput(label, placeholder, initialTime, actionID) ==
    SlackInputElement("input", FALSE,
        ptr(<<SlackBlockAccessory("timepicker", actionID, initialTime)>>),
        ptr(<<SlackBlockText("plain_text", label, TRUE)>>))

MakeSlackModal(title, callbackID, blocks, submitText, closeText, notifyOnClose) ==
    SlackModal("modal",
        ptr(<<SlackBlockText("plain_text", title, FALSE)>>),
        ptr(<<SlackBlockText("plain_text", submitText, FALSE)>>),
        ptr(<<SlackBlockText("plain_text", closeText, FALSE)>>),
        blocks, callbackID, notifyOnClose, "")

\* the arguments of one block constructor; a context block uses text alone
BlockArgs ==
    [make : {"MakeSlackContext"}, text : {"", "hello"}, placeholder : {""},
     initialTime : {""}, actionID : {""}]
    \cup
    [make : {"MakeSlackModalTimePickerInput"}, text : {"Test picker"},
     placeholder : {"", "Please pick a time"}, initialTime : {"", "09:00"},
     actionID : {"test_picker"}]

makeBlock(b) ==
    IF b.make = "MakeSlackContext"
    THEN MakeSlackContext(b.text)
    ELSE MakeSlackModalTimePickerInput(b.text, b.placeholder, b.initialTime,
                                       b.actionID)

\* the blocks argument: no value at all, or a list of blocks
BlocksArgs == {Nil} \cup {<<l>> : l \in SeqsUpTo(BlockArgs, MaxBlocks)}

blocksValue(arg) ==
    IF arg = Nil
    THEN iface(Nil)
    ELSE iface(<<slice([i \in 1..Len(arg[1]) |-> iface(<<makeBlock(arg[1][i])>>)])>>)

\* a modal is built from its blocks and marshalled
MarshalModal ==
    \E blocks \in BlocksArgs, notifyOnClose \in BOOLEAN :
        /\ call = NoCall
        /\ UNCHANGED serving
        /\ call' = [op |-> "Marshal", blocks |-> blocks,
                    notifyOnClose |-> notifyOnClose,
                    wire |-> Marshal(MakeSlackModal("Test Modal",
                                 "test_callback", blocksValue(blocks),
                                 "Submit", "Cancel", notifyOnClose))]
        /\ UNCHANGED <<Tokens, distCB, registries, outputs>>

NextWire ==
    \/ MarshalModal
    \/ Return

SpecWire == Init /\ [][NextWire]_vars

----------------------------------------------------------------------------
(* C18: the wire form of a tree built by the constructors omits every
   empty-valued field; the modal built with notifyOnClose = false from a
   context block and a time picker with an empty initial time has exactly
   the members type, title, submit, close, blocks, callback_id, in that
   order, no notify_on_close, private_metadata or initial_time member and no
   false emoji member, and the placeholder argument appears nowhere. *)

RECURSIVE membersIn(_)
RECURSIVE membersInAll(_)
\* the members of the objects of a JSON value, at any depth
membersIn(j) ==
    CASE j.j = "object" ->
            j.members \o membersInAll([i \in 1..Len(j.members) |->
                                          j.members[i].value])
      [] j.j = "array" -> membersInAll(j.items)
      [] OTHER -> <<>>

membersInAll(js) ==
    IF js = <<>> THEN <<>> ELSE membersIn(Head(js)) \o membersInAll(Tail(js))

emptyJSON(j) ==
    \/ j.j = "null"
    \/ j.j = "string" /\ j.s = ""
    \/ j.j = "bool" /\ ~j.b
    \/ j.j = "number" /\ j.n = 0
    \/ j.j = "array" /\ j.items = <<>>
    \/ j.j = "object" /\ j.members = <<>>

keysOf(j) == [i \in 1..Len(j.members) |-> j.members[i].key]

isMarshal == call.op = "Marshal"

theModalOfTheTest ==
    /\ isMarshal
    /\ ~call.notifyOnClose
    /\ call.blocks # Nil
    /\ Len(call.blocks[1]) = 2
    /\ call.blocks[1][1].make = "MakeSlackContext"
    /\ call.blocks[1][2].make = "MakeSlackModalTimePickerInput"
    /\ call.blocks[1][2].initialTime = ""

wireFormOfTheTest ==
    LET all == membersIn(call.wire)
    IN  /\ keysOf(call.wire) =
               <<"type", "title", "submit", "close", "blocks", "callback_id">>
        /\ \A i \in 1..Len(all) :
              /\ all[i].key \notin {"notify_on_close", "private_metadata",
                                    "initial_time", "placeholder"}
              /\ all[i].key = "emoji" => all[i].value.b
              /\ all[i].value.j = "string" =>
                     \/ all[i].value.s # call.blocks[1][2].placeholder
                     \/ call.blocks[1][2].placeholder = ""

omitsEveryEmptyField ==
    LET all == membersIn(call.wire)
    IN  \A i \in 1..Len(all) : ~emptyJSON(all[i].value)

C18_TestModalWireForm == theModalOfTheTest => wireFormOfTheTest

C18_OmitsEmptyFields ==
    /\ isMarshal => omitsEveryEmptyField
    /\ theModalOfTheTest => wireFormOfTheTest

----------------------------------------------------------------------------
(* C19: a validly signed block_actions event of an installed workspace whose
   actions sequence is empty is rejected with 400, invokes no handler, and
   the dispatcher does not fault. *)

emptyActions ==
    /\ call.op = "interactions"
    /\ call.req.body.Type = "block_actions"
    /\ call.req.body.Actions = <<>>

C19_EmptyActionsRejected ==
    (dispatched /\ emptyActions) =>
        /\ wroteOnce(StatusBadRequest)
        /\ invoked = <<>>
        /\ ~panicked

----------------------------------------------------------------------------
(* C20: every request of the Event Dispatcher whose payload decodes as JSON,
   the team object, the view object or the actions sequence absent or not,
   ends in exactly one of two states: handled (one handler was invoked) or
   rejected (one response with a 4xx status, no handler); the dispatcher
   never faults. *)

handled == Len(invoked) = 1

rejectedWith4xx ==
    /\ Len(res) = 1
    /\ res[1].code \in 400..499
    /\ invoked = <<>>

C20_OneTerminalState ==
    (call.op = "interactions" /\ wellFormed) =>
        /\ ~panicked
        /\ handled # rejectedWith4xx

----------------------------------------------------------------------------
(* C21: a validly signed event request whose payload is missing or does not
   decode is rejected with 400 "Invalid JSON format" and invokes no handler,
   whether or not a workspace is installed: decoding comes before the
   resolution of the tenant. *)

undecodable ==
    /\ call.op = "interactions"
    /\ validlySigned
    /\ ~call.req.body.readErr
    /\ ~call.req.body.formErr
    /\ call.req.body.payloadErr

C21_UndecodableIs400 ==
    undecodable =>
        /\ wroteOnce(StatusBadRequest)
        /\ res[1].message = "Invalid JSON format"
        /\ invoked = <<>>
        /\ ~panicked

\* the rejected payload names a workspace that is installed
C21_Witness ==
    /\ undecodable
    /\ call.req.body.Team # Nil
    /\ holdsWorkspace(Tokens, call.req.body.Team[1])
    /\ wroteOnce(StatusBadRequest)

----------------------------------------------------------------------------
(* C22: a request that a dispatcher rejects, with 401 or 400 and for any
   cause, leaves the shared state as it was: the token list, the five
   handler registries and the post-install callback. *)

rejectedRequest ==
    /\ isRequest
    /\ wroteOnce(StatusBadRequest) \/ wroteOnce(StatusUnauthorized)

C22_RejectionIsLocal ==
    [][rejectedRequest' =>
          UNCHANGED <<Tokens, distCB, cmds, shortcutListeners, actionListeners,
                      submitListeners, closeListeners>>]_vars

\* a request was rejected while tokens and handlers were registered
C22_Witness ==
    /\ rejectedRequest
    /\ Tokens # <<>>
    /\ cmds # EmptyMap
    /\ actionListeners # EmptyMap

----------------------------------------------------------------------------
(* C23: the five handler registries are independent: a registration changes
   only its own registry, and an event whose key is not registered in the
   registry of its own category is rejected with 400, whatever the other
   registries hold under the same key. *)

otherRegistries(op) ==
    CASE op = "OnCommand" ->
            <<shortcutListeners, actionListeners, submitListeners, closeListeners>>
      [] op = "OnShortcut" ->
            <<cmds, actionListeners, submitListeners, closeListeners>>
      [] op = "OnAction" ->
            <<cmds, shortcutListeners, submitListeners, closeListeners>>
      [] op = "OnViewSubmission" ->
            <<cmds, shortcutListeners, actionListeners, closeListeners>>
      [] op = "OnViewClose" ->
            <<cmds, shortcutListeners, actionListeners, submitListeners>>
      [] OTHER -> <<>>

notInOwnRegistry ==
    /\ dispatched
    /\ recognizedCategory
    /\ hasKey
    /\ keyOf \notin DOMAIN registryOf

inAnotherRegistry ==
    keyOf \in ((DOMAIN cmds \cup DOMAIN shortcutListeners
                  \cup DOMAIN actionListeners \cup DOMAIN submitListeners
                  \cup DOMAIN closeListeners) \ DOMAIN registryOf)

C23_RegistriesIndependent ==
    [][/\ \A op \in {"OnCommand", "OnShortcut", "OnAction", "OnViewSubmission",
                      "OnViewClose"} :
             call'.op = op => otherRegistries(op)' = otherRegistries(op)
       /\ notInOwnRegistry' => (wroteOnce(StatusBadRequest)' /\ invoked' = <<>>)]_vars

\* the key of the rejected event is registered, but for another category
C23_Witness ==
    /\ notInOwnRegistry
    /\ inAnotherRegistry
    /\ wroteOnce(StatusBadRequest)
    /\ invoked = <<>>

----------------------------------------------------------------------------
(* C24: a dispatcher that invokes a handler writes no response of its own
   for that request, before or after the invocation; a dispatcher that
   rejects writes exactly one response and invokes no handler.  res holds
   the responses the dispatcher wrote, in order. *)

C24_HandlerOwnsResponse ==
    isRequest =>
        /\ invoked # <<>> => res = <<>>
        /\ res # <<>> => (Len(res) = 1 /\ invoked = <<>>)

\* a handler was invoked for a request and the dispatcher wrote nothing
C24_Witness ==
    /\ isRequest
    /\ Len(invoked) = 1
    /\ res = <<>>

----------------------------------------------------------------------------
(* Calls that run concurrently once the app serves: every request runs on a
   goroutine of its own, and the application may call AddToken or OnCommand
   from its goroutines meanwhile.  The code takes no lock, so each call is
   modelled by the memory accesses it makes: AddToken reads the token list,
   appends to what it read and stores the result; a map assignment and a map
   lookup each take a while, and a lookup that overlaps an assignment of the
   same map has any of the outcomes the runtime can produce: the entry as it
   was, the entry as it becomes, or the fault "concurrent map read and map
   write". *)

Adders == {"AddToken1", "AddToken2"}

tokenOf(g) ==
    IF g = "AddToken1"
    THEN [Workspace |-> "T1", Token |-> "tokA"]
    ELSE [Workspace |-> "T2", Token |-> "tokB"]

\* the registration and the request that race on a.cmds
RacedCommand == "k1"

RacedHandler == "h1"

InitConcurrent ==
    /\ Tokens = <<>>
    /\ distCB = NoCB
    /\ cmds \in {EmptyMap, setHandler(EmptyMap, RacedCommand, "h2")}
    /\ shortcutListeners = EmptyMap
    /\ actionListeners = EmptyMap
    /\ submitListeners = EmptyMap
    /\ closeListeners = EmptyMap
    /\ made = MapNames \ {"shortcutListeners"}
    /\ call = NoCall
    /\ res = <<>>
    /\ invoked = <<>>
    /\ cbCalls = <<>>
    /\ panicked = FALSE
    /\ Prefix = "dev"
    /\ server = Nil
    /\ run = NotServing
    /\ procs = [g \in Goroutines |-> [pc |-> "start", seen |-> <<>>]]

at(g, pc) == procs[g].pc = pc

go(g, pc, seen) == [procs EXCEPT ![g] = [pc |-> pc, seen |-> seen]]

rest == <<distCB, shortcutListeners, actionListeners, submitListeners,
          closeListeners, made, call, outputs, Prefix, server, run>>

\* AddToken evaluates a.opts.Tokens, the argument of append
AddTokenLoad(g) ==
    /\ at(g, "start")
    /\ procs' = go(g, "append", Tokens)
    /\ UNCHANGED <<Tokens, cmds, rest>>

\* AddToken stores the appended list into a.opts.Tokens
AddTokenStore(g) ==
    /\ at(g, "append")
    /\ Tokens' = appendToken(procs[g].seen, tokenOf(g))
    /\ procs' = go(g, "done", procs[g].seen)
    /\ UNCHANGED <<cmds, rest>>

\* commands, for a validly signed request: the tenant is resolved
commandsResolve ==
    \E team \in Workspaces :
        /\ at("commands", "start")
        /\ LET accessToken == findTokenForWorkspace(Tokens, team)
           IN  procs' = go("commands",
                           IF accessToken = Nil THEN "done" ELSE "lookup",
                           [team |-> team, accessToken |-> accessToken,
                            before |-> cmds, overlapped |-> FALSE,
                            outcome |-> IF accessToken = Nil
                                        THEN "App not installed for workspace"
                                        ELSE "none"])
        /\ UNCHANGED <<Tokens, cmds, rest>>

\* commands starts the lookup a.cmds[command]
commandsLookupBegin ==
    /\ at("commands", "lookup")
    /\ procs' = go("commands", "reading",
                   [procs["commands"].seen EXCEPT
                       !.before = cmds,
                       !.overlapped = at("OnCommand", "writing")])
    /\ UNCHANGED <<Tokens, cmds, rest>>

lookupIn(m) ==
    IF RacedCommand \in DOMAIN m THEN m[RacedCommand] ELSE "Unrecognized command"

\* the lookup ends: the handler found is invoked, or the request rejected
commandsLookupEnd ==
    /\ at("commands", "reading")
    /\ \E outcome \in IF procs["commands"].seen.overlapped
                      THEN {lookupIn(procs["commands"].seen.before),
                            lookupIn(cmds), "fault"}
                      ELSE {lookupIn(cmds)} :
          procs' = go("commands", "done",
                      [procs["commands"].seen EXCEPT !.outcome = outcome])
    /\ UNCHANGED <<Tokens, cmds, rest>>

\* OnCommand starts the assignment a.cmds[cmd] = handler
OnCommandBegin ==
    /\ at("OnCommand", "start")
    /\ procs' = [go("OnCommand", "writing", cmds) EXCEPT
                    !["commands"].seen =
                        IF at("commands", "reading")
                        THEN [@ EXCEPT !.overlapped = TRUE]
                        ELSE @]
    /\ UNCHANGED <<Tokens, cmds, rest>>

\* the assignment ends: the entry is in the map
OnCommandEnd ==
    /\ at("OnCommand", "writing")
    /\ cmds' = setHandler(mapOrMake("cmds", cmds), RacedCommand, RacedHandler)
    /\ procs' = go("OnCommand", "done", procs["OnCommand"].seen)
    /\ UNCHANGED <<Tokens, rest>>

NextConcurrent ==
    \/ \E g \in Adders : AddTokenLoad(g)
    \/ \E g \in Adders : AddTokenStore(g)
    \/ commandsResolve
    \/ commandsLookupBegin
    \/ commandsLookupEnd
    \/ OnCommandBegin
    \/ OnCommandEnd

SpecConcurrent == InitConcurrent /\ [][NextConcurrent]_vars

----------------------------------------------------------------------------
(* C25: two AddToken calls for different workspaces that run concurrently
   with each other and with dispatch lookups lose no append: once both have
   completed the token list holds both entries and both workspaces
   resolve. *)

C25_NoLostAppend ==
    (\A g \in Adders : at(g, "done")) =>
        \A g \in Adders :
            /\ \E i \in 1..Len(Tokens) : Tokens[i] = tokenOf(g)
            /\ findTokenForWorkspace(Tokens, tokenOf(g).Workspace) # Nil

----------------------------------------------------------------------------
(* C26: a registration made while the app serves is safe against a
   concurrent dispatch: no write of a handler registry overlaps a read of
   the same registry, and a dispatch sees the registry entirely before or
   entirely after the registration. *)

C26_NoOverlap ==
    /\ ~(at("OnCommand", "writing") /\ at("commands", "reading"))
    /\ at("commands", "done") =>
          /\ ~procs["commands"].seen.overlapped
          /\ procs["commands"].seen.outcome # "fault"

====
